---- MODULE Spec2Model ----
(***************************************************************************)
(* Dataset normalization layer of turkish-lm-tuner (src/src/tr_datasets.py) *)
(*                                                                         *)
(* Text is modelled at symbol level: a Python str is a sequence of         *)
(* symbols.  A symbol is either a separator character (" ", ":", ",",      *)
(* "|", "/", "-") or a run of letters that the code never splits           *)
(* ("PERSON", "Kisi", "a", "isim", ...).  Turkish letters are written in   *)
(* ASCII: "Kisi" stands for the display name of PERSON, "Kurulus" for the  *)
(* one of ORGANIZATION, "Bulunamadi." for the not-found sentinel.          *)
(***************************************************************************)
EXTENDS Integers, Sequences, FiniteSets, TLC

VARIABLES ner, pos, cls, qa, dd, fs, conv, reg, ld

vars == <<ner, pos, cls, qa, dd, fs, conv, reg, ld>>

\* the value of an area of the state that a specification does not use
Idle == [pc |-> "idle"]

(***************************************************************************)
(* Python str / list primitives                                            *)
(***************************************************************************)
SP == " "

\* str.strip(): remove leading and trailing whitespace
RECURSIVE LStrip(_)
LStrip(s) == IF s # <<>> /\ Head(s) = SP THEN LStrip(Tail(s)) ELSE s

RECURSIVE RStrip(_)
RStrip(s) ==
    IF s # <<>> /\ s[Len(s)] = SP THEN RStrip(SubSeq(s, 1, Len(s) - 1)) ELSE s

Strip(s) == RStrip(LStrip(s))

\* str.split(sep) with an explicit, non-empty separator: leftmost,
\* non-overlapping occurrences; empty pieces are kept; ''.split(sep) = ['']
RECURSIVE SplitAcc(_, _, _, _)
SplitAcc(s, sep, i, start) ==
    IF i + Len(sep) - 1 > Len(s)
    THEN << SubSeq(s, start, Len(s)) >>
    ELSE IF SubSeq(s, i, i + Len(sep) - 1) = sep
         THEN << SubSeq(s, start, i - 1) >>
                  \o SplitAcc(s, sep, i + Len(sep), i + Len(sep))
         ELSE SplitAcc(s, sep, i + 1, start)

Split(s, sep) == SplitAcc(s, sep, 1, 1)

\* sep.join(list)
RECURSIVE Join(_, _)
Join(l, sep) ==
    IF l = <<>> THEN <<>>
    ELSE IF Len(l) = 1 THEN l[1]
    ELSE l[1] \o sep \o Join(Tail(l), sep)

\* str.replace(old, new): every non-overlapping occurrence, left to right
Replace(s, old, new) == Join(Split(s, old), new)

\* x in list
Contains(l, x) == \E i \in 1..Len(l) : l[i] = x

\* list.index(x): position of the first occurrence (1-based here);
\* only used where x is in the list
Index(l, x) == CHOOSE i \in 1..Len(l) : l[i] = x /\ \A j \in 1..(i - 1) : l[j] # x

\* all sequences over S of length 0..n
SeqsUpTo(S, n) == UNION { [1..k -> S] : k \in 0..n }

Range(l) == { l[i] : i \in 1..Len(l) }

(***************************************************************************)
(* NERDataset: fixed tables                                                *)
(***************************************************************************)
\* NER_label_translation_d: display name -> short type, as (key, value) pairs
NER_label_translation_d ==
    { << <<"Kisi">>, "PER" >>, << <<"Yer">>, "LOC" >>, << <<"Kurulus">>, "ORG" >> }

\* NER_label_int_dict
NER_label_int_dict == [ PER |-> 1, LOC |-> 3, ORG |-> 5 ]

Sentinel == <<"Bulunamadi.">>

HasKey(d, k) == \E p \in d : p[1] = k
Lookup(d, k) == (CHOOSE p \in d : p[1] = k)[2]

\* NER_label_int_dict[NER_label_translation_d[tag_type]]
BeginCode(tag_type) == NER_label_int_dict[Lookup(NER_label_translation_d, tag_type)]

(***************************************************************************)
(* NERDataset.postprocess_data, for one generated string                   *)
(***************************************************************************)
Zeros(n) == [i \in 1..n |-> 0]

\* the segments and phrases of lines 306-311, flattened in loop order; a
\* segment without ': ' has no el_split[1] and is kept as one bad item
SegItems(type_el) ==
    LET el_split == Split(type_el, <<":", SP>>) IN
    IF Len(el_split) < 2
    THEN << [bad |-> TRUE, tag |-> el_split[1], el |-> <<>>] >>
    ELSE LET el_l == Split(el_split[2], <<",", SP>>) IN
         [i \in 1..Len(el_l) |-> [bad |-> FALSE, tag |-> el_split[1], el |-> el_l[i]]]

RECURSIVE FlatItems(_)
FlatItems(type_split) ==
    IF type_split = <<>> THEN <<>>
    ELSE SegItems(Head(type_split)) \o FlatItems(Tail(type_split))

NERItems(example) == FlatItems(Split(Strip(example), <<SP, "|", SP>>))

NERTokens(example) == Split(Strip(example), <<SP>>)

\* lines 312-316: the phrase is skipped
PhraseSkipped(tokens, el) ==
    \/ Strip(el) = <<>>
    \/ LET el_split == Split(el, <<SP>>) IN
       ~Contains(tokens, el_split[1]) \/ ~Contains(tokens, el_split[Len(el_split)])

PhraseStart(tokens, el) == Index(tokens, Split(el, <<SP>>)[1])
PhraseEnd(tokens, el) ==
    LET el_split == Split(el, <<SP>>) IN Index(tokens, el_split[Len(el_split)])

\* lines 317-325: begin code at start, continue code on range(start+1, end+1)
MarkSpanNoEnd(label_l, start, end, code) ==
    [i \in 1..Len(label_l) |->
        IF i = start THEN code
        ELSE IF i > start /\ i < end THEN code + 1
        ELSE label_l[i]]

MarkSpan(label_l, start, end, code) ==
    [i \in 1..Len(label_l) |->
        IF i = start THEN code
        ELSE IF i > start /\ i <= end THEN code + 1
        ELSE label_l[i]]

\* one iteration of the loops of lines 307-325
NERStep(label_l, tokens, item) ==
    IF item.bad THEN [err |-> "IndexError", labels |-> label_l]
    ELSE IF PhraseSkipped(tokens, item.el) THEN [err |-> "none", labels |-> label_l]
    ELSE IF ~HasKey(NER_label_translation_d, item.tag)
         THEN [err |-> "KeyError", labels |-> label_l]
    ELSE [err |-> "none",
          labels |-> MarkSpan(label_l, PhraseStart(tokens, item.el),
                              IF Len(Split(item.el, <<SP>>)) = 1
                              THEN PhraseStart(tokens, item.el)
                              ELSE PhraseEnd(tokens, item.el),
                              BeginCode(item.tag))]

\* label_l after the first n items (err # "none": the exception propagated)
RECURSIVE NERRun(_, _, _)
NERRun(tokens, items, n) ==
    IF n = 0 THEN [err |-> "none", labels |-> Zeros(Len(tokens))]
    ELSE LET prev == NERRun(tokens, items, n - 1) IN
         IF prev.err # "none" THEN prev ELSE NERStep(prev.labels, tokens, items[n])

NERPostprocess(example) ==
    LET tokens == NERTokens(example) IN
    IF Strip(example) = Sentinel
    THEN [err |-> "none", labels |-> Zeros(Len(tokens))]
    ELSE NERRun(tokens, NERItems(example), Len(NERItems(example)))

(***************************************************************************)
(* NER serializers: MilliyetNERDataset / WikiANNDataset .preprocess_data   *)
(***************************************************************************)
\* a Python dict (insertion-ordered) from str to list, as a sequence of
\* [key, vals]: `if k not in d: d[k] = []` then `d[k].append(v)`
DictKeys(d) == [i \in 1..Len(d) |-> d[i].key]

DictAppend(d, k, v) ==
    IF Contains(DictKeys(d), k)
    THEN [i \in 1..Len(d) |->
            IF d[i].key = k THEN [key |-> k, vals |-> Append(d[i].vals, v)] ELSE d[i]]
    ELSE Append(d, [key |-> k, vals |-> <<v>>])

\* new_l = []; for el in l: if el not in new_l: new_l.append(el)
RECURSIVE DedupAcc(_, _)
DedupAcc(l, new_l) ==
    IF l = <<>> THEN new_l
    ELSE DedupAcc(Tail(l), IF Contains(new_l, Head(l)) THEN new_l ELSE Append(new_l, Head(l)))

KeepAll(l) == l

Dedup(l) == DedupAcc(l, <<>>)

DedupDict(d) == [i \in 1..Len(d) |-> [key |-> d[i].key, vals |-> Dedup(d[i].vals)]]

\* f'{tag_type}: {", ".join(tag_dict[tag_type])}' joined with ' | '
RenderDict(d) ==
    Join([i \in 1..Len(d) |-> d[i].key \o <<":", SP>> \o Join(d[i].vals, <<",", SP>>)],
         <<SP, "|", SP>>)

\* .replace('PERSON: ', ...).replace('LOCATION: ', ...).replace('ORGANIZATION: ', ...).strip()
Localize(text) ==
    Strip(Replace(Replace(Replace(text,
        <<"PERSON", ":", SP>>, <<"Kisi", ":", SP>>),
        <<"LOCATION", ":", SP>>, <<"Yer", ":", SP>>),
        <<"ORGANIZATION", ":", SP>>, <<"Kurulus", ":", SP>>))

\* `if not target_text: target_text = 'Bulunamadi.'`
TargetOf(d) ==
    LET target_text == Localize(RenderDict(DedupDict(d))) IN
    IF target_text = <<>> THEN Sentinel ELSE target_text

\* tags are <<"O">>, <<"B-", type>>, <<"I-", type>>
IsO(tag) == tag = <<"O">>
IsB(tag) == tag # <<>> /\ tag[1] = "B-"
IsI(tag) == tag # <<>> /\ tag[1] = "I-"

Flush(st) ==
    IF st.token_str # <<>> THEN DictAppend(st.tag_dict, st.tag_type, st.token_str)
    ELSE st.tag_dict

\* the token an I- tag contributes, line 423: tokens[tags.index(tag)]
IToken(tokens, tags, j) == tokens[Index(tags, tags[j])]

\* the loop of lines 408-423 after the first j tags
RECURSIVE MilliyetScan(_, _, _)
MilliyetScan(tokens, tags, j) ==
    IF j = 0 THEN [token_str |-> <<>>, tag_type |-> <<>>, tag_dict |-> <<>>]
    ELSE LET st == MilliyetScan(tokens, tags, j - 1)
             tag == tags[j]
         IN  IF IsO(tag)
             THEN [token_str |-> <<>>, tag_type |-> <<>>, tag_dict |-> Flush(st)]
             ELSE IF IsB(tag)
             THEN [token_str |-> tokens[j], tag_type |-> Tail(tag), tag_dict |-> Flush(st)]
             ELSE IF IsI(tag)
             THEN [st EXCEPT !.token_str = @ \o <<SP>> \o IToken(tokens, tags, j)]
             ELSE st

\* tag_dict of lines 424-427, before deduplication
MilliyetTagDict(tokens, tags) == Flush(MilliyetScan(tokens, tags, Len(tags)))

MilliyetPreprocessData(tokens, tags) ==
    [input_text |-> Strip(Join(tokens, <<SP>>)),
     target_text |-> TargetOf(MilliyetTagDict(tokens, tags))]

\* WikiANN spans are 'PER: text', 'LOC: text', 'ORG: text'
StartsWith(s, pre) == Len(s) >= Len(pre) /\ SubSeq(s, 1, Len(pre)) = pre

WikiLocalizeSpan(span) ==
    Replace(Replace(Replace(span,
        <<"PER", ":", SP>>, <<"Kisi", ":", SP>>),
        <<"LOC", ":", SP>>, <<"Yer", ":", SP>>),
        <<"ORG", ":", SP>>, <<"Kurulus", ":", SP>>)

WikiStripPrefix(span) ==
    Replace(Replace(Replace(span,
        <<"Kisi", ":", SP>>, <<>>),
        <<"Yer", ":", SP>>, <<>>),
        <<"Kurulus", ":", SP>>, <<>>)

\* the loop of lines 339-349 after the first n spans
RECURSIVE WikiScan(_, _)
WikiScan(spans, n) ==
    IF n = 0 THEN [tag_type |-> <<>>, tag_dict |-> <<>>]
    ELSE LET st == WikiScan(spans, n - 1)
             span == WikiLocalizeSpan(spans[n])
             tag_type == IF StartsWith(span, <<"Kisi", ":", SP>>) THEN <<"PERSON">>
                         ELSE IF StartsWith(span, <<"Yer", ":", SP>>) THEN <<"LOCATION">>
                         ELSE IF StartsWith(span, <<"Kurulus", ":", SP>>) THEN <<"ORGANIZATION">>
                         ELSE st.tag_type
         IN  [tag_type |-> tag_type,
              tag_dict |-> DictAppend(st.tag_dict, tag_type, WikiStripPrefix(span))]

WikiTagDict(spans) == WikiScan(spans, Len(spans)).tag_dict

WikiANNPreprocessData(tokens, spans) ==
    [input_text |-> Strip(Join(tokens, <<SP>>)),
     target_text |-> TargetOf(WikiTagDict(spans))]

(***************************************************************************)
(* NER state machine: one example through preprocess_data and              *)
(* postprocess_data, or one generated string through postprocess_data      *)
(***************************************************************************)
MaxLen == 3      \* tokens per Milliyet example
MaxSpans == 3    \* spans per WikiANN example
MaxWords == 5    \* space-separated words per generated string

NerWords == { <<"a">>, <<"b">> }
EntityTypes == { "PERSON", "LOCATION", "ORGANIZATION" }
BioTags == { <<"O">> } \cup { <<p, t>> : p \in {"B-", "I-"}, t \in EntityTypes }

WikiSpans == { <<t, ":", SP>> \o w : t \in {"PER", "LOC", "ORG"},
                                     w \in NerWords \cup { <<"a", SP, "b">> } }

\* words a generated string is built from: type heads (one unknown), phrase
\* words, a word with a trailing comma, the segment bar
GenWords == { <<"Kisi", ":">>, <<"Kurulus", ":">>, <<"Foo", ":">>,
              <<"a">>, <<"b">>, <<"a", ",">>, <<"|">> }

NerIdle == [pc |-> "idle", kind |-> "none", tokens |-> <<>>, tags |-> <<>>,
            spans |-> <<>>, input_text |-> <<>>, target_text |-> <<>>,
            generated |-> <<>>, err |-> "none", labels |-> <<>>]

NerExamples ==
    \/ \E n \in 0..MaxLen : \E tokens \in [1..n -> NerWords], tags \in [1..n -> BioTags] :
          ner = [NerIdle EXCEPT !.pc = "raw", !.kind = "milliyet",
                                !.tokens = tokens, !.tags = tags]
    \/ \E spans \in SeqsUpTo(WikiSpans, MaxSpans) :
          ner = [NerIdle EXCEPT !.pc = "raw", !.kind = "wikiann", !.spans = spans]
    \/ \E words \in SeqsUpTo(GenWords, MaxWords) :
          ner = [NerIdle EXCEPT !.pc = "decoded", !.kind = "generated",
                                !.generated = Join(words, <<SP>>)]
    \/ \E lead \in {<<>>, <<SP>>}, trail \in {<<>>, <<SP>>, <<SP, "a">>} :
          ner = [NerIdle EXCEPT !.pc = "decoded", !.kind = "generated",
                                !.generated = lead \o Sentinel \o trail]

MilliyetPreprocess ==
    /\ ner.pc = "raw" /\ ner.kind = "milliyet"
    /\ LET r == MilliyetPreprocessData(ner.tokens, ner.tags) IN
       ner' = [ner EXCEPT !.pc = "decoded", !.input_text = r.input_text,
                          !.target_text = r.target_text, !.generated = r.target_text]
    /\ UNCHANGED <<pos, cls, qa, dd, fs, conv, reg, ld>>

WikiANNPreprocess ==
    /\ ner.pc = "raw" /\ ner.kind = "wikiann"
    /\ LET r == WikiANNPreprocessData(ner.tokens, ner.spans) IN
       ner' = [ner EXCEPT !.pc = "decoded", !.input_text = r.input_text,
                          !.target_text = r.target_text, !.generated = r.target_text]
    /\ UNCHANGED <<pos, cls, qa, dd, fs, conv, reg, ld>>

NERPostprocessData ==
    /\ ner.pc = "decoded"
    /\ LET r == NERPostprocess(ner.generated) IN
       ner' = [ner EXCEPT !.pc = IF r.err = "none" THEN "labelled" ELSE "raised",
                          !.err = r.err,
                          !.labels = IF r.err = "none" THEN r.labels ELSE <<>>]
    /\ UNCHANGED <<pos, cls, qa, dd, fs, conv, reg, ld>>

PosIdle == [pc |-> "idle", ids |-> <<>>, tokens |-> <<>>, tags |-> <<>>,
            input_text |-> <<>>, target_text |-> <<>>, labels |-> <<>>]
ClsIdle == [pc |-> "idle", adapter |-> "none", kind |-> "none", code |-> -1,
            target_text |-> <<>>, generated |-> <<>>, label |-> -1]

NextNER == MilliyetPreprocess \/ WikiANNPreprocess \/ NERPostprocessData

InitNER ==
    /\ NerExamples /\ pos = PosIdle /\ cls = ClsIdle
    /\ qa = Idle /\ dd = Idle /\ fs = Idle /\ conv = Idle /\ reg = Idle /\ ld = Idle

SpecNER == InitNER /\ [][NextNER]_vars

(***************************************************************************)
(* NER claims                                                              *)
(***************************************************************************)
\* each I-X directly continues a B-X run
WellFormedBIO(tags) ==
    \A i \in 1..Len(tags) :
        IsI(tags[i]) => /\ i > 1
                        /\ tags[i - 1] \in { <<"B-", tags[i][2]>>, <<"I-", tags[i][2]>> }

\* the fixed vocabulary of the label scheme: index of a type, by long name and
\* by localized display name
TypeIndex(t) == CASE t = "PERSON" -> 0 [] t = "LOCATION" -> 1 [] t = "ORGANIZATION" -> 2
LocalName(t) == CASE t = "PERSON" -> "Kisi" [] t = "LOCATION" -> "Yer"
                  [] t = "ORGANIZATION" -> "Kurulus"
                  [] t = "PER" -> "Kisi" [] t = "LOC" -> "Yer" [] t = "ORG" -> "Kurulus"
LocalIndex(d) == CASE d = "Kisi" -> 0 [] d = "Yer" -> 1 [] d = "Kurulus" -> 2
LocalNames == { "Kisi", "Yer", "Kurulus" }

NerDone == ner.pc \in {"labelled", "raised"}

\* C1: NER round trip. For a Milliyet example with well-formed BIO tags,
\* postprocess_data applied to the target_text of preprocess_data returns
\* labels in which every B-X position holds X's begin code (2k+1) and every
\* I-X position holds X's continue code (2k+2).
C1_RoundTrip ==
    (ner.kind = "milliyet" /\ NerDone /\ WellFormedBIO(ner.tags)) =>
        /\ ner.pc = "labelled"
        /\ \A i \in 1..Len(ner.tags) :
              /\ IsB(ner.tags[i]) =>
                    i <= Len(ner.labels) /\ ner.labels[i] = 2 * TypeIndex(ner.tags[i][2]) + 1
              /\ IsI(ner.tags[i]) =>
                    i <= Len(ner.labels) /\ ner.labels[i] = 2 * TypeIndex(ner.tags[i][2]) + 2

\* C2: postprocess_data returns one integer per token of the input sentence:
\* n zeros for the sentinel on an n-token input, and [1, 3, 0] for
\* "Kisi: a | Yer: b" on the tokens [a, b, a].
C2_OnePerInputToken ==
    (ner.kind = "milliyet" /\ ner.pc = "labelled") =>
        /\ Len(ner.labels) = Len(ner.tokens)
        /\ ner.generated = Sentinel => ner.labels = Zeros(Len(ner.tokens))
        /\ (/\ ner.tokens = << <<"a">>, <<"b">>, <<"a">> >>
            /\ ner.tags = << <<"B-", "PERSON">>, <<"B-", "LOCATION">>, <<"O">> >>)
              => ner.labels = <<1, 3, 0>>

\* the phrases postprocess_data resolves: known type, non-empty, first and
\* last word found in the token sequence; with their positions
ItemWords(item) == Split(item.el, <<SP>>)
FirstPos(tokens, w) == CHOOSE i \in 1..Len(tokens) :
                          tokens[i] = w /\ \A j \in 1..Len(tokens) : tokens[j] = w => i <= j
Resolvable(tokens, item) ==
    /\ ~item.bad
    /\ Len(item.tag) = 1 /\ item.tag[1] \in LocalNames
    /\ Strip(item.el) # <<>>
    /\ ItemWords(item)[1] \in Range(tokens)
    /\ ItemWords(item)[Len(ItemWords(item))] \in Range(tokens)
ItemStart(tokens, item) == FirstPos(tokens, ItemWords(item)[1])
ItemEnd(tokens, item) == FirstPos(tokens, ItemWords(item)[Len(ItemWords(item))])
Covers(tokens, item, p) ==
    p = ItemStart(tokens, item) \/ (ItemStart(tokens, item) < p /\ p <= ItemEnd(tokens, item))

\* C3: when postprocess_data processes a phrase of the type with index k whose
\* first and last words are in the token sequence, it sets the position of the
\* first word to 2k+1 and every later position up to and including the
\* position of the last word to 2k+2; in the returned sequence every position
\* no phrase covers is 0 and every label is in 0..6.
C3_SpanCodes ==
    (NerDone /\ Strip(ner.generated) # Sentinel) =>
        LET tokens == NERTokens(ner.generated)
            items == NERItems(ner.generated)
        IN  /\ \A n \in 1..Len(items) :
                  (Resolvable(tokens, items[n]) /\ NERRun(tokens, items, n).err = "none") =>
                      LET after == NERRun(tokens, items, n).labels
                          k == LocalIndex(items[n].tag[1])
                          s == ItemStart(tokens, items[n])
                          e == ItemEnd(tokens, items[n])
                      IN  /\ after[s] = 2 * k + 1
                          /\ \A p \in (s + 1)..e : after[p] = 2 * k + 2
            /\ ner.pc = "labelled" =>
                  /\ Len(ner.labels) = Len(tokens)
                  /\ \A p \in 1..Len(tokens) :
                        /\ ner.labels[p] \in 0..6
                        /\ (\A n \in 1..Len(items) :
                              Resolvable(tokens, items[n]) => ~Covers(tokens, items[n], p))
                              => ner.labels[p] = 0

\* a returned sequence holding the continue code of the third type next to its
\* begin code: a multi-word phrase was resolved
C3_Witness ==
    /\ ner.kind = "generated" /\ ner.pc = "labelled"
    /\ \E p \in 1..(Len(ner.labels) - 1) : ner.labels[p] = 5 /\ ner.labels[p + 1] = 6

\* C4: postprocess_data never raises, whatever the generated string.
C4_NeverRaises == ner.pc # "raised"

\* reading a target_text back: segments, their heads and phrase lists
BAR == <<SP, "|", SP>>
COLON == <<":", SP>>
COMMA == <<",", SP>>
Segments(text) == Split(text, BAR)
SegHead(seg) == Split(seg, COLON)[1]
SegPhrases(seg) == Split(Split(seg, COLON)[2], COMMA)
Listed(text) ==
    IF text = Sentinel THEN {}
    ELSE UNION { { <<SegHead(seg), ph>> : ph \in Range(SegPhrases(seg)) } :
                 seg \in Range(Segments(text)) }

NoDup(l) == \A i, j \in 1..Len(l) : l[i] = l[j] => i = j

\* the runs of an example: a B-X tag and the I-X tags that directly follow it
RunEnd(tags, i) ==
    CHOOSE j \in i..Len(tags) :
        /\ \A m \in (i + 1)..j : tags[m] = <<"I-", tags[i][2]>>
        /\ (j < Len(tags) => tags[j + 1] # <<"I-", tags[i][2]>>)
RunText(tokens, tags, i) == Join(SubSeq(tokens, i, RunEnd(tags, i)), <<SP>>)

\* C5: for a Milliyet example, the phrases of target_text are exactly the
\* space-joined tokens of each B-X tag and the I-X tags directly following it
\* (stated on well-formed BIO examples).
C5_RunsArePhrases ==
    (ner.kind = "milliyet" /\ ner.pc # "raw" /\ WellFormedBIO(ner.tags)) =>
        Listed(ner.target_text) =
            { << <<LocalName(ner.tags[i][2])>>, RunText(ner.tokens, ner.tags, i) >> :
                 i \in { m \in 1..Len(ner.tags) : IsB(ner.tags[m]) } }

\* the display names of the types of an example, in order of occurrence, and
\* the phrases collected for one display name before deduplication
BPositions(tags) == SelectSeq([i \in 1..Len(tags) |-> i], LAMBDA i : IsB(tags[i]))
ExampleTypes ==
    IF ner.kind = "milliyet"
    THEN [n \in 1..Len(BPositions(ner.tags)) |->
              <<LocalName(ner.tags[BPositions(ner.tags)[n]][2])>>]
    ELSE [n \in 1..Len(ner.spans) |-> <<LocalName(ner.spans[n][1])>>]
RawPhrases(head) ==
    IF ner.kind = "milliyet"
    THEN LET d == MilliyetTagDict(ner.tokens, ner.tags) IN
         d[CHOOSE i \in 1..Len(d) : <<LocalName(d[i].key[1])>> = head].vals
    ELSE LET mine == SelectSeq(ner.spans, LAMBDA sp : <<LocalName(sp[1])>> = head) IN
         [n \in 1..Len(mine) |-> SubSeq(mine[n], 4, Len(mine[n]))]

\* l lists every element of raw once, in the order of first occurrence in raw
FirstOccurrenceOrder(l, raw) ==
    /\ NoDup(l)
    /\ Range(l) = Range(raw)
    /\ \A a, b \in 1..Len(l) : a < b => FirstPos(raw, l[a]) < FirstPos(raw, l[b])

\* C6: the target_text of WikiANNDataset and MilliyetNERDataset lists each
\* entity type once, in order of first appearance, under its localized name,
\* lists each phrase of a type once, in order of first occurrence, and is the
\* sentinel exactly when the example has no entity.
C6_TargetLayout ==
    (/\ ner.kind \in {"milliyet", "wikiann"} /\ ner.pc # "raw"
     /\ ner.kind = "milliyet" => WellFormedBIO(ner.tags)) =>
        IF ExampleTypes = <<>> THEN ner.target_text = Sentinel
        ELSE /\ ner.target_text # Sentinel
             /\ LET segs == Segments(ner.target_text)
                    heads == [i \in 1..Len(segs) |-> SegHead(segs[i])]
                IN  /\ \A i \in 1..Len(segs) :
                          /\ Len(Split(segs[i], COLON)) = 2
                          /\ heads[i] \in { <<d>> : d \in LocalNames }
                          /\ FirstOccurrenceOrder(SegPhrases(segs[i]), RawPhrases(heads[i]))
                    /\ FirstOccurrenceOrder(heads, ExampleTypes)

\* a Milliyet example whose second type is listed first and whose repeated
\* phrase is listed once
C6_Witness ==
    /\ ner.kind = "milliyet" /\ ner.pc = "decoded"
    /\ ner.tags = << <<"B-", "LOCATION">>, <<"B-", "PERSON">>, <<"B-", "LOCATION">> >>
    /\ ner.tokens = << <<"a">>, <<"b">>, <<"a">> >>
    /\ ner.target_text = <<"Yer", ":", SP, "a", SP, "|", SP, "Kisi", ":", SP, "b">>

(***************************************************************************)
(* POSDataset.preprocess_data / postprocess_data                           *)
(***************************************************************************)
\* pos_d_tr (Turkish display names in ASCII)
pos_d_tr(tag) ==
    CASE tag = "ADP" -> "edat" [] tag = "AUX" -> "yardimci" [] tag = "PRON" -> "zamir"
      [] tag = "NOUN" -> "isim" [] tag = "PROPN" -> "ozel" [] tag = "INTJ" -> "unlem"
      [] tag = "PART" -> "tanimcik" [] tag = "CCONJ" -> "esgudumlu" [] tag = "VERB" -> "fiil"
      [] tag = "SYM" -> "sembol" [] tag = "DET" -> "belirtec" [] tag = "ADV" -> "zarf"
      [] tag = "ADJ" -> "sifat" [] tag = "X" -> "diger" [] tag = "SCONJ" -> "yantumce"
      [] tag = "NUM" -> "sayi" [] tag = "PUNCT" -> "noktalama"

\* '-' in id_t
HasHyphen(id_t) == Contains(id_t, "-")

\* line 517: the unit gets the '-' prefix
PrefixAtTwo(split_token) == split_token = 2

PrefixAt(split_token) == split_token = 1

\* '{}/{}'.format(form, pos_d_tr[pos]) and '-{}/{}'.format(...)
PosUnit(prefixed, form, tag) ==
    (IF prefixed THEN <<"-">> ELSE <<>>) \o form \o <<"/">> \o <<pos_d_tr(tag)>>

\* the loop of lines 510-522 after the first n rows
RECURSIVE PosScan(_, _, _, _)
PosScan(ids, tokens, tags, n) ==
    IF n = 0 THEN [split_token |-> 0, tag_l |-> <<>>]
    ELSE LET st == PosScan(ids, tokens, tags, n - 1)
             split_token == IF HasHyphen(ids[n]) THEN 2 ELSE st.split_token
         IN  IF tags[n] = "_"
             THEN [split_token |-> split_token, tag_l |-> st.tag_l]
             ELSE [split_token |-> IF split_token # 0 THEN split_token - 1 ELSE 0,
                   tag_l |-> Append(st.tag_l,
                                    PosUnit(PrefixAt(split_token), tokens[n], tags[n]))]

POSPreprocessData(ids, tokens, tags) ==
    [input_text |-> Join(tokens, <<SP>>),
     target_text |-> Join(PosScan(ids, tokens, tags, Len(tags)).tag_l, <<SP>>)]

\* token.split('/')[-1]
LastSegment(token) == LET token_split == Split(token, <<"/">>) IN token_split[Len(token_split)]

POSPostprocess(example) ==
    LET tokens == Split(Strip(example), <<SP>>) IN
    [i \in 1..Len(tokens) |-> LastSegment(tokens[i])]

MaxRows == 4     \* rows per POS example

PlainId == <<"n">>
RangeId == <<"n", "-", "n">>
PosForms == { <<"a">>, <<"b", "/", "c">> }
\* rows (id, form, tag): word rows, the range row of a multi-word token, and
\* the two mixed shapes the loop also accepts
PosRows == { <<PlainId, f, t>> : f \in PosForms, t \in {"NOUN", "VERB"} }
           \cup { <<RangeId, <<"a">>, "_">>, <<PlainId, <<"a">>, "_">>,
                  <<RangeId, <<"a">>, "NOUN">> }

InitPOS ==
    /\ \E rows \in SeqsUpTo(PosRows, MaxRows) :
          pos = [PosIdle EXCEPT !.pc = "raw",
                                !.ids = [i \in 1..Len(rows) |-> rows[i][1]],
                                !.tokens = [i \in 1..Len(rows) |-> rows[i][2]],
                                !.tags = [i \in 1..Len(rows) |-> rows[i][3]]]
    /\ ner = NerIdle /\ cls = ClsIdle
    /\ qa = Idle /\ dd = Idle /\ fs = Idle /\ conv = Idle /\ reg = Idle /\ ld = Idle

POSPreprocess ==
    /\ pos.pc = "raw"
    /\ LET r == POSPreprocessData(pos.ids, pos.tokens, pos.tags) IN
       pos' = [pos EXCEPT !.pc = "decoded", !.input_text = r.input_text,
                          !.target_text = r.target_text]
    /\ UNCHANGED <<ner, cls, qa, dd, fs, conv, reg, ld>>

POSPostprocessData ==
    /\ pos.pc = "decoded"
    /\ pos' = [pos EXCEPT !.pc = "labelled", !.labels = POSPostprocess(pos.target_text)]
    /\ UNCHANGED <<ner, cls, qa, dd, fs, conv, reg, ld>>

NextPOS == POSPreprocess \/ POSPostprocessData

SpecPOS == InitPOS /\ [][NextPOS]_vars

(***************************************************************************)
(* POS claims                                                              *)
(***************************************************************************)
NoMultiWord ==
    /\ \A i \in 1..Len(pos.ids) : ~HasHyphen(pos.ids[i])
    /\ \A i \in 1..Len(pos.tags) : pos.tags[i] # "_"

\* C9: POS round trip. For every sequence without multi-word tokens, the
\* empty one included, postprocess_data applied to the target_text of
\* preprocess_data returns the tags mapped through the display vocabulary,
\* one per token and in order.
C9_RoundTrip ==
    (pos.pc = "labelled" /\ NoMultiWord) =>
        pos.labels = [i \in 1..Len(pos.tags) |-> <<pos_d_tr(pos.tags[i])>>]

\* the same round trip on the sequences that have at least one token
C9_RoundTripNonEmpty ==
    (pos.pc = "labelled" /\ NoMultiWord /\ pos.tags # <<>>) =>
        pos.labels = [i \in 1..Len(pos.tags) |-> <<pos_d_tr(pos.tags[i])>>]

\* rows that are emitted, the latest range row at or before a row, and the
\* number of emitted rows from that range row up to the row before j
Emitted(j) == pos.tags[j] # "_"
EmittedRows == SelectSeq([i \in 1..Len(pos.tags) |-> i], LAMBDA i : Emitted(i))
HasRangeUpTo(j) == \E r \in 1..j : HasHyphen(pos.ids[r])
LastRange(j) == CHOOSE r \in 1..j :
                   HasHyphen(pos.ids[r]) /\ \A q \in (r + 1)..j : ~HasHyphen(pos.ids[q])
EmittedSince(j) == Cardinality({ q \in LastRange(j)..(j - 1) : Emitted(q) })

\* target_text when exactly the rows satisfying IsPrefixed get the '-' prefix
\* and rows tagged '_' are left out
Rendered(IsPrefixed(_)) ==
    Join([n \in 1..Len(EmittedRows) |->
            (IF IsPrefixed(EmittedRows[n]) THEN <<"-">> ELSE <<>>)
               \o pos.tokens[EmittedRows[n]] \o <<"/">>
               \o <<pos_d_tr(pos.tags[EmittedRows[n]])>>],
         <<SP>>)

FirstAfterRange(j) == HasRangeUpTo(j) /\ LastRange(j) < j /\ EmittedSince(j) = 0
SecondAfterRange(j) == HasRangeUpTo(j) /\ EmittedSince(j) = 1

\* the examples the claim is about: every range row is tagged '_' and every
\* word row has a real tag
RangeRowsOnly ==
    \A i \in 1..Len(pos.ids) : HasHyphen(pos.ids[i]) <=> pos.tags[i] = "_"

\* C10 as stated: the real sub-token immediately following a range row is the
\* one rendered with the '-' prefix, rows tagged '_' are not emitted, and no
\* other token gets the prefix.
C10_FirstSubTokenPrefixed ==
    (pos.pc # "raw" /\ RangeRowsOnly) => pos.target_text = Rendered(FirstAfterRange)

\* C10 amended: the token rendered with the '-' prefix is the second emitted
\* token counted from the latest range row (the second real sub-token of the
\* multi-word token); the first one is rendered plainly, rows tagged '_' are
\* not emitted, and no other token gets the prefix.
C10_SecondSubTokenPrefixed ==
    pos.pc # "raw" => pos.target_text = Rendered(SecondAfterRange)

\* a range row followed by its two sub-tokens and one more word
C10_Witness ==
    /\ pos.pc = "decoded"
    /\ pos.ids = <<RangeId, PlainId, PlainId, PlainId>>
    /\ pos.tags = <<"_", "NOUN", "VERB", "NOUN">>
    /\ pos.target_text = <<"a", "/", "isim", SP, "-", "a", "/", "fiil", SP, "a", "/", "isim">>

(***************************************************************************)
(* Label codecs: NLI_TRDataset, TTC4900Dataset, ProductDataset             *)
(***************************************************************************)
Adapters == { "nli_tr", "ttc4900", "turkish_product_reviews" }

\* a table in which two codes share a display string
IN_LABEL_DICT_Dup(adapter) ==
    CASE adapter = "nli_tr" -> <<"gereklilik", "notr", "notr">>
      [] adapter = "ttc4900" ->
            <<"siyaset", "dunya", "ekonomi", "kultur", "saglik", "spor", "spor">>
      [] adapter = "turkish_product_reviews" -> <<"negatif", "negatif">>

\* IN_LABEL_DICT of each adapter (display strings in ASCII); code c is at
\* position c + 1
IN_LABEL_DICT(adapter) ==
    CASE adapter = "nli_tr" -> <<"gereklilik", "notr", "celiski">>
      [] adapter = "ttc4900" ->
            <<"siyaset", "dunya", "ekonomi", "kultur", "saglik", "spor", "teknoloji">>
      [] adapter = "turkish_product_reviews" -> <<"negatif", "pozitif">>

Codes(adapter) == 0..(Len(IN_LABEL_DICT(adapter)) - 1)

Encode(adapter, c) == << IN_LABEL_DICT(adapter)[c + 1] >>

\* OUT_LABEL_DICT = {v: k for k, v in IN_LABEL_DICT.items()}: for a repeated
\* value the last key written stays
OUT_LABEL_DICT(adapter) ==
    { <<Encode(adapter, c), c>> : c \in { k \in Codes(adapter) :
            \A k2 \in Codes(adapter) : Encode(adapter, k2) = Encode(adapter, k) => k2 <= k } }

\* dict.get(key, default)
Get(d, k, default) == IF HasKey(d, k) THEN Lookup(d, k) ELSE default

\* a decoder that looks the text up without trimming it
DecodeNoStrip(adapter, ex) == Get(OUT_LABEL_DICT(adapter), ex, -1)

\* OUT_LABEL_DICT.get(ex.strip(), -1)
Decode(adapter, ex) == Get(OUT_LABEL_DICT(adapter), Strip(ex), -1)

MaxText == 3     \* symbols per generated classification text

\* symbols of a generated text: a blank, the adapter's labels, a foreign word
TextSymbols(adapter) == { SP, "neutral" } \cup Range(IN_LABEL_DICT(adapter))

InitCls ==
    /\ \E adapter \in Adapters :
          \/ \E c \in Codes(adapter) :
                cls = [ClsIdle EXCEPT !.pc = "coded", !.adapter = adapter,
                                      !.kind = "example", !.code = c]
          \/ \E text \in SeqsUpTo(TextSymbols(adapter), MaxText) :
                cls = [ClsIdle EXCEPT !.pc = "decoded", !.adapter = adapter,
                                      !.kind = "generated", !.generated = text]
    /\ ner = NerIdle /\ pos = PosIdle
    /\ qa = Idle /\ dd = Idle /\ fs = Idle /\ conv = Idle /\ reg = Idle /\ ld = Idle

\* preprocess_data without skip_output_processing
ClsPreprocess ==
    /\ cls.pc = "coded"
    /\ cls' = [cls EXCEPT !.pc = "decoded", !.target_text = Encode(cls.adapter, cls.code),
                          !.generated = Encode(cls.adapter, cls.code)]
    /\ UNCHANGED <<ner, pos, qa, dd, fs, conv, reg, ld>>

ClsPostprocess ==
    /\ cls.pc = "decoded"
    /\ cls' = [cls EXCEPT !.pc = "labelled", !.label = Decode(cls.adapter, cls.generated)]
    /\ UNCHANGED <<ner, pos, qa, dd, fs, conv, reg, ld>>

NextCls == ClsPreprocess \/ ClsPostprocess

SpecCls == InitCls /\ [][NextCls]_vars

(***************************************************************************)
(* Label codec claims                                                      *)
(***************************************************************************)
\* C7: for every adapter and every code c of its IN_LABEL_DICT,
\* postprocess_data of the target_text preprocess_data produced for c is c,
\* and no two codes share a display string.
C7_CodecRoundTrip ==
    /\ (cls.kind = "example" /\ cls.pc = "labelled") => cls.label = cls.code
    /\ cls.adapter \in Adapters =>
          \A c1, c2 \in Codes(cls.adapter) :
              Encode(cls.adapter, c1) = Encode(cls.adapter, c2) => c1 = c2

\* the last topic code went through both directions
C7_Witness ==
    /\ cls.kind = "example" /\ cls.pc = "labelled" /\ cls.adapter = "ttc4900"
    /\ cls.code = 6 /\ cls.target_text = <<"teknoloji">> /\ cls.label = 6

\* C8: postprocess_data returns the label's code for a text that equals a
\* known display label after trimming, -1 for every other text, and -1 is the
\* code of no label.
C8_UnknownIsMinusOne ==
    /\ (cls.kind = "generated" /\ cls.pc = "labelled") =>
          LET t == Strip(cls.generated) IN
          IF \E c \in Codes(cls.adapter) : t = <<IN_LABEL_DICT(cls.adapter)[c + 1]>>
          THEN cls.label \in Codes(cls.adapter)
               /\ t = <<IN_LABEL_DICT(cls.adapter)[cls.label + 1]>>
          ELSE cls.label = -1
    /\ cls.adapter \in Adapters => -1 \notin Codes(cls.adapter)

\* a foreign word with a leading blank, decoded by the sentiment codec
C8_Witness ==
    /\ cls.kind = "generated" /\ cls.pc = "labelled"
    /\ cls.adapter = "turkish_product_reviews"
    /\ cls.generated = <<SP, "neutral">> /\ cls.label = -1

(***************************************************************************)
(* Question answering and question generation:                            *)
(* ExamsDataset, TQUADDataset, MKQADataset                                 *)
(***************************************************************************)
\* Python None, kept apart from every text
None == <<"<None>">>

\* `not x` for a text or None
Not(x) == x = None \/ x = <<>>

\* the pair of parallel lists a preprocess function returns
Columns(input_texts, target_texts) ==
    [input_text |-> input_texts, target_text |-> target_texts]

\* variant: an empty resolved answer appends (question_str, '')
ExamsStepKeepEmpty(question, answer_key) ==
    LET choices == question.choices IN
    IF ~Contains(choices.label, answer_key) THEN << <<question.stem, <<>> >> >>
    ELSE LET answer == choices.text[Index(choices.label, answer_key)] IN
         IF Not(answer) THEN << <<question.stem, <<>> >> >>
         ELSE << <<question.stem, answer>> >>

\* ExamsDataset: what one loop iteration appends, as (question_str, answer)
\* pairs; an empty resolved answer appends nothing
ExamsStep(question, answer_key) ==
    LET choices == question.choices IN
    IF ~Contains(choices.label, answer_key) THEN << <<question.stem, <<>> >> >>
    ELSE LET answer == choices.text[Index(choices.label, answer_key)] IN
         IF Not(answer) THEN <<>>
         ELSE << <<question.stem, answer>> >>

RECURSIVE ExamsLoop(_)
ExamsLoop(examples) ==
    IF examples = <<>> THEN <<>>
    ELSE ExamsStep(Head(examples).question, Head(examples).answerKey)
         \o ExamsLoop(Tail(examples))

Firsts(pairs) == [i \in 1..Len(pairs) |-> pairs[i][1]]
Seconds(pairs) == [i \in 1..Len(pairs) |-> pairs[i][2]]

ExamsQA(examples) ==
    Columns(Firsts(ExamsLoop(examples)), Seconds(ExamsLoop(examples)))

\* the same loop; the two lists are exchanged in the returned dictionary
ExamsQG(examples) ==
    Columns(Seconds(ExamsLoop(examples)), Firsts(ExamsLoop(examples)))

\* TQUADDataset: the prompt pieces of the two f-strings
Baglam == <<"Baglam", ":", SP>>
Soru == <<SP, "|", SP, "Soru", ":", SP>>
Cevap == <<SP, "|", SP, "Cevap", ":", SP>>

\* the (context, question, answer) triples of a batch, all stripped, in the
\* order of the three nested loops
RECURSIVE TquadQas(_, _)
TquadQas(context, qas) ==
    IF qas = <<>> THEN <<>>
    ELSE << <<context, Strip(Head(qas).question),
              Strip(Head(qas).answers[1])>> >>
         \o TquadQas(context, Tail(qas))

RECURSIVE TquadParagraphs(_)
TquadParagraphs(paragraphs) ==
    IF paragraphs = <<>> THEN <<>>
    ELSE TquadQas(Strip(Head(paragraphs).context), Head(paragraphs).qas)
         \o TquadParagraphs(Tail(paragraphs))

RECURSIVE TquadLoop(_)
TquadLoop(examples) ==
    IF examples = <<>> THEN <<>>
    ELSE TquadParagraphs(Head(examples)) \o TquadLoop(Tail(examples))

TquadQA(examples) ==
    LET l == TquadLoop(examples) IN
    Columns([i \in 1..Len(l) |-> Baglam \o l[i][1] \o Soru \o l[i][2]],
            [i \in 1..Len(l) |-> l[i][3]])

TquadQG(examples) ==
    LET l == TquadLoop(examples) IN
    Columns([i \in 1..Len(l) |-> Baglam \o l[i][1] \o Cevap \o l[i][3]],
            [i \in 1..Len(l) |-> l[i][2]])

\* MKQADataset: one pair per example; a missing answer becomes ''
MkqaQA(examples) ==
    Columns([i \in 1..Len(examples) |-> examples[i].query],
            [i \in 1..Len(examples) |->
                IF Not(examples[i].answer) THEN <<>> ELSE examples[i].answer])

\* variant: the unanswerable pair is left in its QA orientation
MkqaQGUnswapped(examples) ==
    Columns([i \in 1..Len(examples) |->
                IF Not(examples[i].answer) THEN examples[i].query
                ELSE examples[i].answer],
            [i \in 1..Len(examples) |->
                IF Not(examples[i].answer) THEN <<>> ELSE examples[i].query])

MkqaQG(examples) ==
    Columns([i \in 1..Len(examples) |->
                IF Not(examples[i].answer) THEN <<>> ELSE examples[i].answer],
            [i \in 1..Len(examples) |-> examples[i].query])

\* preprocess_data(examples, task) of the three adapters
QaPreprocessData(kind, examples, task) ==
    IF kind = "exams"
    THEN (IF task = "qa" THEN ExamsQA(examples) ELSE ExamsQG(examples))
    ELSE IF kind = "tquad"
    THEN (IF task = "qa" THEN TquadQA(examples) ELSE TquadQG(examples))
    ELSE (IF task = "qa" THEN MkqaQA(examples) ELSE MkqaQG(examples))

(***************************************************************************)
(* The question-answering machine: a batch is preprocessed for both tasks  *)
(***************************************************************************)
MaxBatch == 2

\* Exams: two choices labelled A and B; the key may name neither
ExamsExamples ==
    { [question |-> [stem |-> s,
                     choices |-> [label |-> <<"A", "B">>, text |-> t]],
       answerKey |-> k] :
      s \in { <<"q1">>, <<"q2">> },
      t \in { << <<"Paris">>, <<"Lyon">> >>, << <<>>, <<"Lyon">> >>,
              << <<"Paris">>, <<>> >> },
      k \in {"A", "B", "C"} }

\* TQuAD: documents of zero to two paragraphs, paragraphs with zero to two
\* questions, texts with outer blanks
TquadDocs ==
    LET items == { [question |-> <<"q1">>, answers |-> << <<"a">> >>],
                   [question |-> <<SP, "q2">>,
                    answers |-> << <<"b", SP>>, <<"a">> >>] }
        paras == { [context |-> c, qas |-> q] :
                   c \in { <<"c">>, <<"d", SP>> }, q \in SeqsUpTo(items, 2) }
    IN { <<>> } \cup { <<p>> : p \in paras }
       \cup { <<p, q>> : p, q \in { r \in paras : Len(r.qas) = 1 } }

\* MKQA: the Turkish query and the text of the first Turkish answer
MkqaExamples ==
    { [query |-> q, answer |-> a] :
      q \in { <<"q1">>, <<"q2">> }, a \in { None, <<>>, <<"Ankara">> } }

QaBatches ==
    { [kind |-> "exams", examples |-> e] : e \in SeqsUpTo(ExamsExamples, MaxBatch) }
    \cup { [kind |-> "tquad", examples |-> e] : e \in SeqsUpTo(TquadDocs, MaxBatch) }
    \cup { [kind |-> "mkqa", examples |-> e] : e \in SeqsUpTo(MkqaExamples, MaxBatch) }

NoColumns == Columns(<<>>, <<>>)

InitQA ==
    /\ \E b \in QaBatches :
          qa = [pc |-> "batch", kind |-> b.kind, examples |-> b.examples,
                done |-> {}, out_qa |-> NoColumns, out_qg |-> NoColumns]
    /\ ner = NerIdle /\ pos = PosIdle /\ cls = ClsIdle
    /\ dd = Idle /\ fs = Idle /\ conv = Idle /\ reg = Idle /\ ld = Idle

\* dataset.map(preprocess_function) with task = 'qa'
PreprocessQA ==
    /\ "qa" \notin qa.done
    /\ qa' = [qa EXCEPT !.done = @ \cup {"qa"},
                        !.out_qa = QaPreprocessData(qa.kind, qa.examples, "qa")]
    /\ UNCHANGED <<ner, pos, cls, dd, fs, conv, reg, ld>>

\* dataset.map(preprocess_function) with task = 'qg'
PreprocessQG ==
    /\ "qg" \notin qa.done
    /\ qa' = [qa EXCEPT !.done = @ \cup {"qg"},
                        !.out_qg = QaPreprocessData(qa.kind, qa.examples, "qg")]
    /\ UNCHANGED <<ner, pos, cls, dd, fs, conv, reg, ld>>

NextQA == PreprocessQA \/ PreprocessQG

SpecQA == InitQA /\ [][NextQA]_vars

\* ---- C11 ----
KeyAbsent(e) == ~Contains(e.question.choices.label, e.answerKey)

\* the text of the choice whose label is the answer key
Resolved(e) ==
    LET c == e.question.choices
        k == CHOOSE i \in 1..Len(c.label) :
                 c.label[i] = e.answerKey /\ \A j \in 1..(i - 1) : c.label[j] # e.answerKey
    IN c.text[k]

EmptyAnswer(e) == ~KeyAbsent(e) /\ Resolved(e) = <<>>

ExamsQaDone == qa.pc # "idle" /\ qa.kind = "exams" /\ "qa" \in qa.done

Answered(examples) == SelectSeq(examples, LAMBDA e : ~EmptyAnswer(e))

BothDone == qa.pc # "idle" /\ qa.done = {"qa", "qg"}

Exchanged(c) == Columns(c.target_text, c.input_text)

SameLength ==
    /\ Len(qa.out_qg.input_text) = Len(qa.out_qa.input_text)
    /\ Len(qa.out_qg.target_text) = Len(qa.out_qa.target_text)

\* TQuAD pair i: the QA prompt is "Baglam: c | Soru: q" with answer a, and
\* the QG pair is ("Baglam: c | Cevap: a", q)
TquadExchanged(i) ==
    LET parts == Split(qa.out_qa.input_text[i], Soru) IN
    /\ Len(parts) = 2
    /\ qa.out_qg.target_text[i] = parts[2]
    /\ qa.out_qg.input_text[i] = parts[1] \o Cevap \o qa.out_qa.target_text[i]

\* C12: for every batch of each of the three formats the QG output has as
\* many pairs as the QA output, in the same order, with the QA answer on the
\* input side and the QA question on the target side; for Exams and MKQA it
\* is exactly the QA output with input_text and target_text exchanged.
C12_QGIsQAExchanged ==
    BothDone =>
        /\ SameLength
        /\ qa.kind \in {"exams", "mkqa"} => qa.out_qg = Exchanged(qa.out_qa)
        /\ qa.kind = "tquad" =>
              \A i \in 1..Len(qa.out_qa.input_text) : TquadExchanged(i)

\* an MKQA batch with one unanswerable and one answered query went through
\* both tasks: QA (q1, "") and QG ("", q1), QA (q2, Ankara) and QG (Ankara, q2)
C12_Witness ==
    /\ BothDone /\ qa.kind = "mkqa"
    /\ qa.examples = << [query |-> <<"q1">>, answer |-> None],
                        [query |-> <<"q2">>, answer |-> <<"Ankara">>] >>
    /\ qa.out_qa = Columns(<< <<"q1">>, <<"q2">> >>, << <<>>, <<"Ankara">> >>)
    /\ qa.out_qg = Columns(<< <<>>, <<"Ankara">> >>, << <<"q1">>, <<"q2">> >>)

(***************************************************************************)
(* BaseDataset.deduplicate_data                                            *)
(***************************************************************************)
\* a dataset: its column names and its rows (column name -> value)
Dataset(column_names, rows) == [column_names |-> column_names, rows |-> rows]

\* the column pandas adds for an index that is not a plain range
INDEX_COLUMN == "__index_level_0__"

\* dataset.to_pandas(): the rows under the index 0, 1, 2, ...
ToPandas(dataset) ==
    [columns |-> dataset.column_names,
     frame |-> [i \in 1..Len(dataset.rows) |->
                   [index |-> i - 1, row |-> dataset.rows[i]]]]

\* variant: keep the last row of each value
DropDuplicatesKeepLast(df, input_column) ==
    LET Later(i) == \E j \in (i + 1)..Len(df.frame) :
                        df.frame[j].row[input_column] = df.frame[i].row[input_column]
        F[i \in 0..Len(df.frame)] ==
            IF i = 0 THEN <<>>
            ELSE IF Later(i) THEN F[i - 1] ELSE Append(F[i - 1], df.frame[i])
    IN [df EXCEPT !.frame = F[Len(df.frame)]]

\* df.drop_duplicates(subset=[input_column]): keep the first row of each
\* value; the kept rows keep their index labels
DropDuplicates(df, input_column) ==
    LET Earlier(i) == \E j \in 1..(i - 1) :
                          df.frame[j].row[input_column] = df.frame[i].row[input_column]
        F[i \in 0..Len(df.frame)] ==
            IF i = 0 THEN <<>>
            ELSE IF Earlier(i) THEN F[i - 1] ELSE Append(F[i - 1], df.frame[i])
    IN [df EXCEPT !.frame = F[Len(df.frame)]]

\* datasets.Dataset.from_pandas(df): the index becomes a column when pandas
\* no longer holds it as a plain range (preserve_index)
FromPandas(df, preserve_index) ==
    IF preserve_index
    THEN Dataset(Append(df.columns, INDEX_COLUMN),
                 [i \in 1..Len(df.frame) |->
                     [c \in Range(df.columns) \cup {INDEX_COLUMN} |->
                         IF c = INDEX_COLUMN THEN df.frame[i].index
                         ELSE df.frame[i].row[c]]])
    ELSE Dataset(df.columns, [i \in 1..Len(df.frame) |-> df.frame[i].row])

\* dataset.map(remove_columns=drop_columns)
RemoveColumns(dataset, drop_columns) ==
    LET keep == SelectSeq(dataset.column_names, LAMBDA c : ~Contains(drop_columns, c))
    IN Dataset(keep, [i \in 1..Len(dataset.rows) |->
                         [c \in Range(keep) |-> dataset.rows[i][c]]])

deduplicate_data(dataset, input_column, preserve_index) ==
    LET df == DropDuplicates(ToPandas(dataset), input_column)
        dedup_dataset == FromPandas(df, preserve_index)
        drop_columns == SelectSeq(dedup_dataset.column_names,
                                  LAMBDA col : ~Contains(dataset.column_names, col))
    IN RemoveColumns(dedup_dataset, drop_columns)

MaxRecords == 3

DedupColumns == <<"text", "category">>
DedupInputs ==
    { Dataset(DedupColumns, r) :
      r \in SeqsUpTo([Range(DedupColumns) -> {"a", "b"}], MaxRecords) }

InitDedup ==
    /\ \E d \in DedupInputs, c \in Range(DedupColumns) :
          dd = [pc |-> "loaded", dataset |-> d, input_column |-> c,
                out |-> Dataset(<<>>, <<>>)]
    /\ ner = NerIdle /\ pos = PosIdle /\ cls = ClsIdle
    /\ qa = Idle /\ fs = Idle /\ conv = Idle /\ reg = Idle /\ ld = Idle

\* load_dataset of TTC4900Dataset / ProductDataset: one call of
\* deduplicate_data; whether the index survives as a column is up to pandas
Deduplicate ==
    /\ dd.pc = "loaded"
    /\ \E preserve_index \in BOOLEAN :
          dd' = [dd EXCEPT !.pc = "deduplicated",
                           !.out = deduplicate_data(dd.dataset, dd.input_column,
                                                    preserve_index)]
    /\ UNCHANGED <<ner, pos, cls, qa, fs, conv, reg, ld>>

NextDedup == Deduplicate

SpecDedup == InitDedup /\ [][NextDedup]_vars

\* ---- C13 ----
Deduplicated == dd.pc = "deduplicated"

ValuesOf(rows, c) == { rows[i][c] : i \in 1..Len(rows) }

\* the first row of the input that has value v in column c
FirstWith(rows, c, v) ==
    rows[CHOOSE i \in 1..Len(rows) :
            rows[i][c] = v /\ \A j \in 1..(i - 1) : rows[j][c] # v]

\* C13: the output of deduplicate_data has no two records with the same
\* value in the designated column, has exactly one record for each distinct
\* value of the input, that record being the first occurrence, and has the
\* same columns as the input.
C13_OnePerValue ==
    Deduplicated =>
        LET c == dd.input_column
            in == dd.dataset.rows
            out == dd.out.rows
        IN /\ \A i, j \in 1..Len(out) : out[i][c] = out[j][c] => i = j
           /\ ValuesOf(out, c) = ValuesOf(in, c)
           /\ \A i \in 1..Len(out) : out[i] = FirstWith(in, c, out[i][c])
           /\ dd.out.column_names = dd.dataset.column_names

\* three rows, the first and the last sharing their text: two rows come out,
\* the first one standing for the shared text
C13_Witness ==
    /\ Deduplicated /\ dd.input_column = "text"
    /\ Len(dd.dataset.rows) = 3
    /\ dd.dataset.rows[1].text = "a" /\ dd.dataset.rows[1].category = "a"
    /\ dd.dataset.rows[2].text = "b"
    /\ dd.dataset.rows[3].text = "a" /\ dd.dataset.rows[3].category = "b"
    /\ dd.out.rows = << dd.dataset.rows[1], dd.dataset.rows[2] >>

(***************************************************************************)
(* The one-time conversion of a raw file into line-delimited JSON:         *)
(* MilliyetNERDataset.load_dataset and POSDataset.load_dataset, one        *)
(* output file, seen at the level of whole records                         *)
(***************************************************************************)
\* the chunks of a raw file (the pieces between blank lines) by what the
\* loop does with them: a record to write, nothing to write (a blank chunk,
\* a sentence without annotation rows), or a line that cannot be unpacked
BLANK == "blank"
BAD == "bad"
RecordChunks == {"r1", "r2"}
Chunks == RecordChunks \cup {BLANK, BAD}

\* the output file: absent, or a sequence of lines; each line remembers the
\* process that wrote it
NoFile == [exists |-> FALSE, lines |-> <<>>]

\* variant: the output file is never found
FileMissing(file) == FALSE

\* data_file.exists()
FileExists(file) == file.exists

\* variant: open(data_file, 'w'): the file is emptied before the write
TruncateAndWrite(file, line) == [exists |-> TRUE, lines |-> <<line>>]

\* open(data_file, 'a') and f.write(json.dumps(el) + '\n')
AppendLine(file, line) == [exists |-> TRUE, lines |-> Append(file.lines, line)]

\* variant: every chunk is passed over
OutcomeNothing(chunk) == "skip"

\* what the loop body does with one chunk
Outcome(chunk) ==
    IF chunk = BLANK THEN "skip" ELSE IF chunk = BAD THEN "raise" ELSE "write"

MaxChunks == 3
MaxCalls == 3

RawFiles == SeqsUpTo(Chunks, MaxChunks)

\* the end of a call: it is counted, and the first one to end leaves a
\* snapshot of the file
EndCall(s, p, how, file) ==
    [s EXCEPT !.pc[p] = "idle", !.file = file,
              !.ends = Append(@, how),
              !.first = IF s.ends = <<>> THEN file ELSE @]

\* load_dataset is entered: the exists-check either skips the conversion
\* or lets it start by reading the raw file
Check(p) ==
    /\ fs.pc[p] = "idle" /\ fs.left[p] > 0
    /\ IF FileExists(fs.file)
       THEN fs' = [EndCall(fs, p, "skipped", fs.file) EXCEPT !.left[p] = @ - 1]
       ELSE fs' = [fs EXCEPT !.pc[p] = "converting", !.i[p] = 1, !.left[p] = @ - 1,
                             !.passed = @ \cup {p}]
    /\ UNCHANGED <<ner, pos, cls, qa, dd, conv, reg, ld>>

\* one turn of the loop over the chunks
Step(p) ==
    /\ fs.pc[p] = "converting" /\ fs.i[p] <= Len(fs.raw)
    /\ LET o == Outcome(fs.raw[fs.i[p]]) IN
       IF o = "raise" THEN fs' = EndCall(fs, p, "raised", fs.file)
       ELSE IF o = "skip" THEN fs' = [fs EXCEPT !.i[p] = @ + 1]
       ELSE fs' = [fs EXCEPT !.i[p] = @ + 1,
                             !.file = AppendLine(fs.file,
                                         [rec |-> fs.raw[fs.i[p]], by |-> p])]
    /\ UNCHANGED <<ner, pos, cls, qa, dd, conv, reg, ld>>

\* the loop is over and load_dataset goes on to read the output file
Return(p) ==
    /\ fs.pc[p] = "converting" /\ fs.i[p] > Len(fs.raw)
    /\ fs' = EndCall(fs, p, "returned", fs.file)
    /\ UNCHANGED <<ner, pos, cls, qa, dd, conv, reg, ld>>

\* the process is stopped from outside in the middle of the conversion
Stop(p) ==
    /\ fs.pc[p] = "converting"
    /\ fs' = EndCall(fs, p, "stopped", fs.file)
    /\ UNCHANGED <<ner, pos, cls, qa, dd, conv, reg, ld>>

Converter(procs, calls) ==
    \E raw \in RawFiles :
        fs = [raw |-> raw, file |-> NoFile,
              pc |-> [p \in procs |-> "idle"], i |-> [p \in procs |-> 0],
              left |-> [p \in procs |-> calls], passed |-> {},
              ends |-> <<>>, first |-> NoFile]

\* one process, calling load_dataset again and again
InitConv ==
    /\ Converter({1}, MaxCalls)
    /\ ner = NerIdle /\ pos = PosIdle /\ cls = ClsIdle
    /\ qa = Idle /\ dd = Idle /\ conv = Idle /\ reg = Idle /\ ld = Idle

NextConv == Check(1) \/ Step(1) \/ Return(1) \/ Stop(1)

SpecConv == InitConv /\ [][NextConv]_vars

\* two processes, each calling load_dataset once, in any interleaving
InitRace ==
    /\ Converter({1, 2}, 1)
    /\ ner = NerIdle /\ pos = PosIdle /\ cls = ClsIdle
    /\ qa = Idle /\ dd = Idle /\ conv = Idle /\ reg = Idle /\ ld = Idle

NextRace == \E p \in {1, 2} : Check(p) \/ Step(p) \/ Return(p)

SpecRace == InitRace /\ [][NextRace]_vars

\* ---- C14 ----
AllIdle == \A p \in DOMAIN fs.pc : fs.pc[p] = "idle"

AllRecords(raw) == SelectSeq(raw, LAMBDA c : c \in RecordChunks)

Recs(lines) == [k \in 1..Len(lines) |-> lines[k].rec]

IsStrictPrefix(s, t) == Len(s) < Len(t) /\ s = SubSeq(t, 1, Len(s))

\* the first conversion ended, stopped or failed, with at least one record
\* written and at least one still to write
Interrupted ==
    /\ fs.ends # <<>>
    /\ fs.ends[1] \in {"stopped", "raised"}
    /\ Len(fs.first.lines) >= 1
    /\ Len(fs.first.lines) < Len(AllRecords(fs.raw))

\* the output file only ever grows at its end
AppendOnly ==
    /\ fs.file.exists => fs'.file.exists
    /\ Len(fs'.file.lines) >= Len(fs.file.lines)
    /\ SubSeq(fs'.file.lines, 1, Len(fs.file.lines)) = fs.file.lines

\* C18: after a first conversion that stopped between its first and its last
\* record, every later call skips, so the file stays as it was left, a
\* strict prefix of the full conversion; and no step of any call truncates
\* or rewrites the file.
C18_PartialFileStays ==
    /\ [](Interrupted =>
            /\ fs.file = fs.first
            /\ IsStrictPrefix(Recs(fs.file.lines), AllRecords(fs.raw))
            /\ \A k \in 2..Len(fs.ends) : fs.ends[k] = "skipped")
    /\ [][AppendOnly]_vars

\* a conversion of two records was stopped after the first; two later calls
\* skipped and the file still holds that one record
C18_Witness ==
    /\ AllIdle
    /\ fs.raw = <<"r1", "r2">>
    /\ fs.ends = <<"stopped", "skipped", "skipped">>
    /\ Recs(fs.file.lines) = <<"r1">>

\* ---- C17 ----
\* both processes passed the exists-check while the file was absent
Raced == fs.passed = {1, 2}

BothEnded == AllIdle /\ Len(fs.ends) = 2

\* the records one conversion writes: those before the first chunk it
\* cannot unpack
RECURSIVE Converted(_)
Converted(raw) ==
    IF raw = <<>> \/ Head(raw) = BAD THEN <<>>
    ELSE IF Head(raw) = BLANK THEN Converted(Tail(raw))
    ELSE <<Head(raw)>> \o Converted(Tail(raw))

WrittenBy(p) == Recs(SelectSeq(fs.file.lines, LAMBDA l : l.by = p))

\* C17 as stated: when both first-time writers passed the exists-check
\* before either had written, the final file holds the records of one
\* complete conversion: nothing written twice, one writer's lines only.
C17_LastWriterWins ==
    (Raced /\ BothEnded) =>
        \E w \in {1, 2} :
            /\ \A k \in 1..Len(fs.file.lines) : fs.file.lines[k].by = w
            /\ Recs(fs.file.lines) = Converted(fs.raw)

\* C17 amended: when both first-time writers passed the exists-check before
\* either had written, the final file holds the lines of both conversions:
\* every record twice, once from each writer, each writer's records in
\* conversion order, the two writers' lines interleaved in any way.
C17_BothWritersAppend ==
    (Raced /\ BothEnded) =>
        /\ \A w \in {1, 2} : WrittenBy(w) = Converted(fs.raw)
        /\ Len(fs.file.lines) = 2 * Len(Converted(fs.raw))

\* two racing conversions of two records ended with their lines alternating
C17_Witness ==
    /\ Raced /\ BothEnded
    /\ fs.raw = <<"r1", "r2">>
    /\ fs.file.lines = << [rec |-> "r1", by |-> 1], [rec |-> "r1", by |-> 2],
                          [rec |-> "r2", by |-> 1], [rec |-> "r2", by |-> 2] >>

(***************************************************************************)
(* POSDataset.load_dataset: from the lines of one sentence to its record   *)
(***************************************************************************)
\* a line is the sequence of its tab-separated fields
TAB == "\t"
Flat(line) == Join(line, <<TAB>>)

\* md_pattern '^# (.+?) = (.+?)$': the place of the first ' = ' that has
\* something on both sides, 0 when the line does not match
MdAt(line) ==
    LET f == Flat(line)
        At(k) == /\ f[k] = SP /\ f[k + 1] = "=" /\ f[k + 2] = SP
        ks == { k \in 4..(Len(f) - 3) : At(k) }
    IN IF Len(f) >= 7 /\ f[1] = "#" /\ f[2] = SP /\ ks # {}
       THEN CHOOSE k \in ks : \A j \in ks : k <= j
       ELSE 0

MdField(line) == Strip(SubSeq(Flat(line), 3, MdAt(line) - 1))
MdValue(line) == Strip(SubSeq(Flat(line), MdAt(line) + 3, Len(Flat(line))))

\* annotation_pattern '(.+\t){9}.+' on a line of ten fields: nine tabs, each
\* with something before it, and something after the last
AnnotationMatch(line) == Len(line) = 10 /\ \A k \in 1..10 : line[k] # <<>>

\* variant: the rows of multi-word tokens are kept
AnnotationRowsKeepRange(rows) ==
    LET F[n \in 0..Len(rows)] ==
            IF n = 0 THEN [err |-> FALSE, id_l |-> <<>>, token_l |-> <<>>, tag_l |-> <<>>]
            ELSE LET st == F[n - 1]
                     fields == rows[n]
                 IN IF st.err THEN st
                    ELSE IF Len(fields) < 4 THEN [st EXCEPT !.err = TRUE]
                    ELSE [st EXCEPT !.id_l = Append(@, fields[1]),
                                    !.token_l = Append(@, fields[2]),
                                    !.tag_l = Append(@, fields[4])]
    IN F[Len(rows)]

\* the loop over the rows from the first annotation row on: id, token and
\* tag are fields 0, 1 and 3; a row whose id has a '-' is passed over; a row
\* with fewer than four fields raises IndexError
AnnotationRows(rows) ==
    LET F[n \in 0..Len(rows)] ==
            IF n = 0 THEN [err |-> FALSE, id_l |-> <<>>, token_l |-> <<>>, tag_l |-> <<>>]
            ELSE LET st == F[n - 1]
                     fields == rows[n]
                 IN IF st.err THEN st
                    ELSE IF Len(fields) < 4 THEN [st EXCEPT !.err = TRUE]
                    ELSE IF Contains(fields[1], "-") THEN st
                    ELSE [st EXCEPT !.id_l = Append(@, fields[1]),
                                    !.token_l = Append(@, fields[2]),
                                    !.tag_l = Append(@, fields[4])]
    IN F[Len(rows)]

NoRecord == [ids |-> <<>>, tokens |-> <<>>, tags |-> <<>>, sent_id |-> <<>>]

\* the body of the loop over the sentences: the metadata lines before the
\* first annotation row, then the rows, then one record appended
RECURSIVE SentenceFrom(_, _, _)
SentenceFrom(lines, i, sent_id) ==
    IF i > Len(lines) THEN [written |-> FALSE, err |-> FALSE, record |-> NoRecord]
    ELSE LET sid == IF MdAt(lines[i]) # 0 /\ MdField(lines[i]) = <<"sent_id">>
                    THEN MdValue(lines[i]) ELSE sent_id
         IN IF AnnotationMatch(lines[i])
            THEN LET r == AnnotationRows(SubSeq(lines, i, Len(lines))) IN
                 IF r.err THEN [written |-> FALSE, err |-> TRUE, record |-> NoRecord]
                 ELSE [written |-> TRUE, err |-> FALSE,
                       record |-> [ids |-> r.id_l, tokens |-> r.token_l,
                                   tags |-> r.tag_l, sent_id |-> sid]]
            ELSE SentenceFrom(lines, i + 1, sid)

PosSentence(lines) == SentenceFrom(lines, 1, <<>>)

MaxLines == 3

U == <<"_">>
PosRow(id_t, token, tag) == <<id_t, token, <<"lemma">>, <<tag>>, U, U, U, U, U, U>>

\* the lines of a treebank sentence: the sent_id line, another comment, word
\* rows, the range row of a multi-word token, a row cut short
PosLines ==
    { << <<"#", SP, "sent_id", SP, "=", SP, "s1">> >>,
      << <<"#", SP, "note">> >>,
      PosRow(PlainId, <<"a">>, "NOUN"), PosRow(PlainId, <<"b">>, "VERB"),
      PosRow(PlainId, <<"-">>, "PUNCT"), PosRow(PlainId, <<"a">>, "_"),
      PosRow(RangeId, <<"a">>, "_"),
      << PlainId, <<"a">> >> }

InitPosConv ==
    /\ \E lines \in SeqsUpTo(PosLines, MaxLines) :
          conv = [pc |-> "raw", lines |-> lines, written |-> FALSE, err |-> FALSE,
                  record |-> NoRecord, input_text |-> <<>>, target_text |-> <<>>]
    /\ ner = NerIdle /\ pos = PosIdle /\ cls = ClsIdle
    /\ qa = Idle /\ dd = Idle /\ fs = Idle /\ reg = Idle /\ ld = Idle

\* a tag field of the file is one symbol: the tag as preprocess_data sees it
TagName(field) == field[1]

\* load_dataset converts the sentence
ConvertSentence ==
    /\ conv.pc = "raw"
    /\ LET r == PosSentence(conv.lines) IN
       conv' = [conv EXCEPT !.pc = "converted", !.written = r.written,
                            !.err = r.err, !.record = r.record]
    /\ UNCHANGED <<ner, pos, cls, qa, dd, fs, reg, ld>>

\* the record read back from the output file goes through preprocess_data
PreprocessRecord ==
    /\ conv.pc = "converted" /\ conv.written
    /\ LET r == POSPreprocessData(conv.record.ids, conv.record.tokens,
                                  [k \in 1..Len(conv.record.tags) |->
                                      TagName(conv.record.tags[k])])
       IN conv' = [conv EXCEPT !.pc = "preprocessed", !.input_text = r.input_text,
                               !.target_text = r.target_text]
    /\ UNCHANGED <<ner, pos, cls, qa, dd, fs, reg, ld>>

NextPosConv == ConvertSentence \/ PreprocessRecord

SpecPosConv == InitPosConv /\ [][NextPosConv]_vars

\* ---- C19 ----
\* the units of the record's tokens whose tag is not '_', none prefixed
PlainUnits(record) ==
    LET kept == SelectSeq([k \in 1..Len(record.tags) |-> k],
                          LAMBDA k : record.tags[k] # U)
    IN [n \in 1..Len(kept) |->
           record.tokens[kept[n]] \o <<"/">> \o <<pos_d_tr(TagName(record.tags[kept[n]]))>>]

\* C19: every record written by the conversion has ids, tokens and tags of
\* the same length and no id with a '-'; and preprocess_data of such a record
\* gives exactly one 'token/tag' unit for each token whose tag is not '_',
\* none of them with the added '-' prefix.
C19_ConvertedRecordsPlain ==
    /\ conv.written =>
          /\ Len(conv.record.ids) = Len(conv.record.tokens)
          /\ Len(conv.record.ids) = Len(conv.record.tags)
          /\ \A k \in 1..Len(conv.record.ids) : ~Contains(conv.record.ids[k], "-")
    /\ conv.pc = "preprocessed" =>
          conv.target_text = Join(PlainUnits(conv.record), <<SP>>)

\* a sentence with the range row of a multi-word token and its two parts:
\* the record holds the two parts only and both units come out plain
C19_Witness ==
    /\ conv.pc = "preprocessed"
    /\ conv.lines = << PosRow(RangeId, <<"a">>, "_"), PosRow(PlainId, <<"a">>, "NOUN"),
                       PosRow(PlainId, <<"b">>, "VERB") >>
    /\ conv.record.ids = << PlainId, PlainId >>
    /\ conv.target_text = <<"a", "/", "isim", SP, "b", "/", "fiil">>

(***************************************************************************)
(* initialize_dataset                                                      *)
(***************************************************************************)
DATASET_MAPPING_NAMES ==
    << <<"tr_news", "TRNewsDataset">>, <<"mlsum", "MLSumDataset">>,
       <<"combined_news", "CombinedNewsDataset">>,
       <<"opensubtitles", "OpenSubtitlesDataset">>,
       <<"tatoeba", "TatoebaDataset">>, <<"ted", "TEDDataset">>,
       <<"nli_tr", "NLI_TRDataset">>, <<"snli_tr", "NLI_TRDataset">>,
       <<"multinli_tr", "NLI_TRDataset">>, <<"exams", "ExamsDataset">>,
       <<"tquad", "TQUADDataset">>, <<"mkqa", "MKQADataset">>,
       <<"wikiann", "WikiANNDataset">>, <<"milliyet", "MilliyetNERDataset">>,
       <<"boun", "UDBOUNDataset">>, <<"imst", "UDIMSTDataset">>,
       <<"stsb_tr", "STSb_TRDataset">>, <<"ttc4900", "TTC4900Dataset">>,
       <<"tr_product_reviews", "ProductDataset">> >>

\* the classes the module defines
ModuleClasses ==
    { "BaseDataset", "TRNewsDataset", "MLSumDataset", "CombinedNewsDataset",
      "OpenSubtitlesDataset", "TatoebaDataset", "TEDDataset", "LocalDataset",
      "STSb_TRDataset", "NLI_TRDataset", "ExamsDataset", "TQUADDataset",
      "MKQADataset", "NERDataset", "WikiANNDataset", "MilliyetNERDataset",
      "POSDataset", "UDBOUNDataset", "UDIMSTDataset", "ClassificationDataset",
      "TTC4900Dataset", "ProductDataset" }

NoDataset == [class |-> "none", arg |-> "none"]

\* getattr(sys.modules[__name__], classname)
str_to_class(classname) ==
    IF classname \in ModuleClasses THEN classname ELSE "AttributeError"

\* Python None as a dataset_loc
NoLoc == "<None>"

\* variant: a name that is not in the table gets the base adapter
initialize_dataset_default(dataset_name, dataset_loc) ==
    LET hits == { k \in 1..Len(DATASET_MAPPING_NAMES) :
                    DATASET_MAPPING_NAMES[k][1] = dataset_name }
    IN IF hits = {}
       THEN [raised |-> "none",
             dataset |-> [class |-> "BaseDataset", arg |-> dataset_name]]
       ELSE LET k == CHOOSE k \in hits : \A j \in hits : k <= j
                dataset_class == str_to_class(DATASET_MAPPING_NAMES[k][2])
            IN [raised |-> "none",
                dataset |-> [class |-> dataset_class,
                             arg |-> IF dataset_loc # "" /\ dataset_loc # NoLoc
                                     THEN dataset_loc ELSE dataset_name]]

\* the loop stops at the first entry with the name; the adapter is built
\* from the location when one is given, from the name otherwise
initialize_dataset(dataset_name, dataset_loc) ==
    LET hits == { k \in 1..Len(DATASET_MAPPING_NAMES) :
                    DATASET_MAPPING_NAMES[k][1] = dataset_name }
    IN IF hits = {}
       THEN [raised |-> "NotImplementedError", dataset |-> NoDataset]
       ELSE LET k == CHOOSE k \in hits : \A j \in hits : k <= j
                dataset_class == str_to_class(DATASET_MAPPING_NAMES[k][2])
            IN IF dataset_class = "AttributeError"
               THEN [raised |-> "AttributeError", dataset |-> NoDataset]
               ELSE [raised |-> "none",
                     dataset |-> [class |-> dataset_class,
                                  arg |-> IF dataset_loc # "" /\ dataset_loc # NoLoc
                                          THEN dataset_loc ELSE dataset_name]]

RegisteredNames == { DATASET_MAPPING_NAMES[k][1] : k \in 1..Len(DATASET_MAPPING_NAMES) }

\* the names a caller may ask for: the registered ones and some others
AskedNames == RegisteredNames \cup {"", "unknown", "TR_NEWS", "TRNewsDataset", "pos"}

InitReg ==
    /\ \E n \in AskedNames, l \in {NoLoc, "", "dir"} :
          reg = [pc |-> "asked", dataset_name |-> n, dataset_loc |-> l,
                 raised |-> "none", dataset |-> NoDataset]
    /\ ner = NerIdle /\ pos = PosIdle /\ cls = ClsIdle
    /\ qa = Idle /\ dd = Idle /\ fs = Idle /\ conv = Idle /\ ld = Idle

InitializeDataset ==
    /\ reg.pc = "asked"
    /\ LET r == initialize_dataset(reg.dataset_name, reg.dataset_loc) IN
       reg' = [reg EXCEPT !.pc = "answered", !.raised = r.raised,
                          !.dataset = r.dataset]
    /\ UNCHANGED <<ner, pos, cls, qa, dd, fs, conv, ld>>

NextReg == InitializeDataset

SpecReg == InitReg /\ [][NextReg]_vars

\* ---- C15 ----
\* C15: for a name of the table initialize_dataset returns an instance of
\* the class the table gives for that name, and for every other name it
\* raises and returns no adapter.
C15_RegisteredClassOrError ==
    reg.pc = "answered" =>
        IF reg.dataset_name \in RegisteredNames
        THEN /\ reg.raised = "none"
             /\ \A k \in 1..Len(DATASET_MAPPING_NAMES) :
                   DATASET_MAPPING_NAMES[k][1] = reg.dataset_name
                       => reg.dataset.class = DATASET_MAPPING_NAMES[k][2]
        ELSE reg.raised # "none" /\ reg.dataset = NoDataset

\* 'snli_tr', the second of the three names of NLI_TRDataset, was asked for
\* without a location and answered with an NLI_TRDataset built from the name
C15_Witness ==
    /\ reg.pc = "answered" /\ reg.raised = "none"
    /\ reg.dataset_name = "snli_tr" /\ reg.dataset_loc = NoLoc
    /\ reg.dataset = [class |-> "NLI_TRDataset", arg |-> "snli_tr"]

(***************************************************************************)
(* Composite sources: CombinedNewsDataset.load_dataset and                 *)
(* NLI_TRDataset.load_dataset                                              *)
(***************************************************************************)
\* split=None
NoSplit == "<None>"

\* datasets.load_dataset(..., split=split) on what the hub holds under a
\* name: one split, or with split=None the dictionary of all its splits
HubLoad(hub, name, split) == IF split = NoSplit THEN hub[name] ELSE hub[name][split]

\* dataset.rename_column(old, new)
RenameColumn(dataset, old, new) ==
    LET Renamed(c) == IF c = old THEN new ELSE c
        names == [k \in 1..Len(dataset.column_names) |-> Renamed(dataset.column_names[k])]
    IN Dataset(names,
               [i \in 1..Len(dataset.rows) |->
                   [c \in Range(names) |->
                       IF c = new THEN dataset.rows[i][old] ELSE dataset.rows[i][c]]])

\* variant: the second dataset comes first
ConcatenateSwapped(first, second) ==
    Dataset(first.column_names, second.rows \o first.rows)

\* datasets.concatenate_datasets([first, second]) of two datasets with the
\* same columns
Concatenate(first, second) ==
    Dataset(first.column_names, first.rows \o second.rows)

CombinedNewsLoad(hub, split) ==
    LET trnews == HubLoad(hub, "tr_news", split)
        RenameBoth(d) == RenameColumn(RenameColumn(d, "text", "content"),
                                      "summary", "abstract")
        loaded == HubLoad(hub, "mlsum", split)
        mlsum == IF split = NoSplit
                 THEN [key \in DOMAIN loaded |-> RenameBoth(loaded[key])]
                 ELSE RenameBoth(loaded)
    IN IF split # NoSplit THEN Concatenate(trnews, mlsum)
       ELSE [key \in DOMAIN trnews |-> Concatenate(trnews[key], mlsum[key])]

\* dataset.filter(lambda example: example["label"] != -1), on a dataset or,
\* with split=None, on every split of a dictionary of datasets
FilterLabelled(dataset, split) ==
    LET Kept(d) == Dataset(d.column_names, SelectSeq(d.rows, LAMBDA r : r.label # -1))
    IN IF split = NoSplit THEN [key \in DOMAIN dataset |-> Kept(dataset[key])]
       ELSE Kept(dataset)

\* load_dataset of NLI_TRDataset('snli_tr') and NLI_TRDataset('multinli_tr')
NliPartLoad(hub, dataset_name, split) ==
    LET dataset == IF dataset_name = "snli_tr" THEN HubLoad(hub, "snli_tr", split)
                   ELSE IF dataset_name = "multinli_tr" /\ split = "test"
                   THEN HubLoad(hub, "multinli_tr", "validation_mismatched")
                   ELSE HubLoad(hub, dataset_name, split)
    IN FilterLabelled(dataset, split)

NliLoad(hub, dataset_name, split) ==
    IF dataset_name = "nli_tr"
    THEN LET dataset == IF split = "train"
                        THEN Concatenate(NliPartLoad(hub, "multinli_tr", split),
                                         NliPartLoad(hub, "snli_tr", split))
                        ELSE NliPartLoad(hub, "snli_tr", split)
         IN FilterLabelled(dataset, split)
    ELSE NliPartLoad(hub, dataset_name, split)

MaxLoad == 2

NewsColumns == <<"content", "abstract">>
MlsumColumns == <<"text", "summary">>
NliColumns == <<"premise", "label">>

\* what the hub holds: the train splits vary, the other splits are fixed
Hub(t, m, a, b) ==
    [tr_news |-> [train |-> Dataset(NewsColumns, t),
                  test |-> Dataset(NewsColumns,
                                   << [content |-> "t2", abstract |-> "x"] >>)],
     mlsum |-> [train |-> Dataset(MlsumColumns, m),
                test |-> Dataset(MlsumColumns,
                                 << [text |-> "m2", summary |-> "y"],
                                    [text |-> "m1", summary |-> "y"] >>)],
     multinli_tr |-> [train |-> Dataset(NliColumns, a),
                      validation_mismatched |->
                          Dataset(NliColumns, << [premise |-> "m", label |-> 0] >>)],
     snli_tr |-> [train |-> Dataset(NliColumns, b),
                  test |-> Dataset(NliColumns,
                                   << [premise |-> "s", label |-> -1],
                                      [premise |-> "s", label |-> 1] >>)]]

NewsHubs ==
    LET trnews == { [content |-> c, abstract |-> "x"] : c \in {"t1", "t2"} }
        mlsum == { [text |-> c, summary |-> "y"] : c \in {"m1", "m2"} }
    IN { Hub(t, m, <<>>, <<>>) :
         t \in SeqsUpTo(trnews, MaxLoad), m \in SeqsUpTo(mlsum, MaxLoad) }

NliHubs ==
    LET mnli == { [premise |-> "m", label |-> l] : l \in {0, -1} }
        snli == { [premise |-> "s", label |-> l] : l \in {1, -1} }
    IN { Hub(<<>>, <<>>, a, b) :
         a \in SeqsUpTo(mnli, MaxLoad), b \in SeqsUpTo(snli, MaxLoad) }

InitLoad ==
    /\ \E n \in {"combined_news", "nli_tr", "snli_tr", "multinli_tr"},
          s \in {"train", "test", NoSplit} :
          \E h \in IF n = "combined_news" THEN NewsHubs ELSE NliHubs :
              ld = [pc |-> "new", hub |-> h, dataset_name |-> n, split |-> s,
                    dataset |-> Dataset(<<>>, <<>>)]
    /\ ner = NerIdle /\ pos = PosIdle /\ cls = ClsIdle
    /\ qa = Idle /\ dd = Idle /\ fs = Idle /\ conv = Idle /\ reg = Idle

LoadCombinedNews ==
    /\ ld.pc = "new" /\ ld.dataset_name = "combined_news"
    /\ ld' = [ld EXCEPT !.pc = "loaded",
                        !.dataset = CombinedNewsLoad(ld.hub, ld.split)]
    /\ UNCHANGED <<ner, pos, cls, qa, dd, fs, conv, reg>>

LoadNLI ==
    /\ ld.pc = "new" /\ ld.dataset_name # "combined_news"
    /\ ld' = [ld EXCEPT !.pc = "loaded",
                        !.dataset = NliLoad(ld.hub, ld.dataset_name, ld.split)]
    /\ UNCHANGED <<ner, pos, cls, qa, dd, fs, conv, reg>>

NextLoad == LoadCombinedNews \/ LoadNLI

SpecLoad == InitLoad /\ [][NextLoad]_vars

\* ---- C16 ----
\* an mlsum record under the tr_news field names
AsNews(r) == [content |-> r.text, abstract |-> r.summary]

\* rows is all of first, in order, followed by all of second, in order
Follows(rows, first, second) ==
    /\ Len(rows) = Len(first) + Len(second)
    /\ \A i \in 1..Len(first) : rows[i] = first[i]
    /\ \A i \in 1..Len(second) : rows[Len(first) + i] = second[i]

NewsOrder(dataset, key) ==
    /\ dataset.column_names = NewsColumns
    /\ Follows(dataset.rows, ld.hub.tr_news[key].rows,
               [i \in 1..Len(ld.hub.mlsum[key].rows) |-> AsNews(ld.hub.mlsum[key].rows[i])])

Labelled(rows) == SelectSeq(rows, LAMBDA r : r.label # -1)

\* C16: CombinedNewsDataset.load_dataset gives, for a named split and for
\* each split when none is named, the tr_news records in their order followed
\* by the mlsum records in their order under the tr_news field names; and
\* NLI_TRDataset('nli_tr').load_dataset('train') gives the multinli_tr
\* records followed by the snli_tr records, only those labelled -1 left out.
C16_FirstSourceFirst ==
    ld.pc = "loaded" =>
        /\ (ld.dataset_name = "combined_news" /\ ld.split # NoSplit)
              => NewsOrder(ld.dataset, ld.split)
        /\ (ld.dataset_name = "combined_news" /\ ld.split = NoSplit)
              => /\ DOMAIN ld.dataset = DOMAIN ld.hub.tr_news
                 /\ \A key \in DOMAIN ld.dataset : NewsOrder(ld.dataset[key], key)
        /\ (ld.dataset_name = "nli_tr" /\ ld.split = "train")
              => Follows(ld.dataset.rows,
                         Labelled(ld.hub.multinli_tr.train.rows),
                         Labelled(ld.hub.snli_tr.train.rows))

\* two tr_news and two mlsum training records were loaded as one split:
\* t2, t1, then m1, m2 as news records
C16_Witness ==
    /\ ld.pc = "loaded" /\ ld.dataset_name = "combined_news" /\ ld.split = "train"
    /\ ld.dataset.rows = << [content |-> "t2", abstract |-> "x"],
                            [content |-> "t1", abstract |-> "x"],
                            [content |-> "m1", abstract |-> "y"],
                            [content |-> "m2", abstract |-> "y"] >>

====
